---- MODULE Spec2Model ----
(***************************************************************************)
(* Model of app.py, the Streamlit document orchestrator.                   *)
(*                                                                         *)
(* A session is a sequence of script runs.  Each run is triggered by one   *)
(* user event: a widget edit (file uploader, question input, recipient     *)
(* input) or a button press ("Extract", "Send Alert Mail").  The state is  *)
(* st.session_state, the widget values, and what the last run did: what it *)
(* rendered, which external calls it made, and whether an exception left   *)
(* the script.                                                             *)
(*                                                                         *)
(* Strings the code inspects character by character (file names, LLM       *)
(* content, HTTP bodies) are sequences of one-character strings.  Document *)
(* texts are run-length encoded, <<[c |-> "a", n |-> 20001], ...>>, so the *)
(* slices text[:20000] and text[:50000] are computed with the program's    *)
(* own limits.                                                             *)
(***************************************************************************)
EXTENDS Integers, Sequences, FiniteSets, TLC

VARIABLES
    N8N_WEBHOOK_URL,  \* app.py:19, read from the secrets
    uploaded,         \* app.py:74, <<>> (no file) or <<document>>
    question,         \* app.py:75, value of the question input
    recip,            \* app.py:119, value of the recipient input
    session_state,    \* st.session_state restricted to the keys app.py writes
    content,          \* app.py:58, completion content the last run received
    reply,            \* what ask_groq_json did in the last run
    rendered,         \* messages the last run rendered, in order
    completions,      \* prompts the last run sent to the completion API
    posts,            \* payloads the last run posted to the webhook
    writes,           \* session_state keys the last run assigned, in order
    escaped,          \* TRUE iff an exception left the last run uncaught
    stage2,           \* TRUE iff the last run rendered the Stage 2 block
    pressed,          \* button the last run handled: "none", "extract", "send"
    response,         \* <<>> or <<outcome>> of the last run's requests.post
    committed         \* history: <<>> or <<triple>> of the last Extract run
                      \* whose ask_groq_json call returned

vars == <<N8N_WEBHOOK_URL, uploaded, question, recip, session_state, content,
          reply, rendered, completions, posts, writes, escaped, stage2,
          pressed, response, committed>>

---------------------------------------------------------------------------
(* Bounds *)

MaxContentLen == 3      \* longest enumerated completion content

---------------------------------------------------------------------------
(* Small helpers *)

Min(S) == CHOOSE m \in S : \A o \in S : m <= o
Max(S) == CHOOSE m \in S : \A o \in S : m >= o

---------------------------------------------------------------------------
(* Python str operations on run-length encoded texts *)

WhitespaceChars == {" "}

TextLen(t) ==
    LET RECURSIVE Sum(_)
        Sum(r) == IF r = <<>> THEN 0 ELSE Head(r).n + Sum(Tail(r))
    IN  Sum(t)

\* text[:k]
RECURSIVE Slice(_, _)
Slice(t, k) ==
    IF t = <<>> \/ k <= 0 THEN <<>>
    ELSE IF Head(t).n >= k THEN <<[c |-> Head(t).c, n |-> k]>>
    ELSE <<Head(t)>> \o Slice(Tail(t), k - Head(t).n)

\* the effect of str.strip() on the tail of the prompt: the document text is
\* the last thing embedded, so its trailing whitespace is stripped with it
RECURSIVE RStrip(_)
RStrip(t) ==
    IF t = <<>> THEN <<>>
    ELSE IF t[Len(t)].c \in WhitespaceChars THEN RStrip(SubSeq(t, 1, Len(t) - 1))
    ELSE t

IsPrefix(p, t) == p = Slice(t, TextLen(p))

---------------------------------------------------------------------------
(* json.loads on a subset of JSON: objects, arrays, strings without        *)
(* escapes, non-negative integers, blanks as whitespace.  A value is       *)
(* [kind, text, members]: text is the compact serialisation (for a string, *)
(* its characters), members the key/value pairs of an object.              *)

Digits == {"0", "1"}
Quote == "\""

NoValue == [kind |-> "none", text |-> <<>>, members |-> <<>>]
ParseError == [ok |-> FALSE, val |-> NoValue, next |-> 0]

StringValue(chars) == [kind |-> "string", text |-> chars, members |-> <<>>]

\* serialisation of a value nested in an object or an array
Dumps(v) == IF v.kind = "string" THEN <<Quote>> \o v.text \o <<Quote>> ELSE v.text

\* dict[key] = v: a repeated key keeps its position and takes the new value
SetItem(members, key, v) ==
    IF \E i \in 1..Len(members) : members[i].key = key
    THEN [i \in 1..Len(members) |->
            IF members[i].key = key THEN [members[i] EXCEPT !.value = v]
            ELSE members[i]]
    ELSE Append(members, [key |-> key, value |-> v])

MemberText(m) == <<Quote>> \o m.key \o <<Quote, ":">> \o Dumps(m.value)

RECURSIVE Join(_)
Join(parts) ==
    IF parts = <<>> THEN <<>>
    ELSE IF Len(parts) = 1 THEN parts[1]
    ELSE parts[1] \o <<",">> \o Join(Tail(parts))

ObjectValue(members) ==
    [kind |-> "object",
     text |-> <<"{">> \o Join([i \in 1..Len(members) |-> MemberText(members[i])]) \o <<"}">>,
     members |-> [i \in 1..Len(members) |->
                    [key |-> members[i].key,
                     value |-> [kind |-> members[i].value.kind,
                                text |-> members[i].value.text]]]]

ArrayValue(elems) ==
    [kind |-> "array",
     text |-> <<"[">> \o Join([i \in 1..Len(elems) |-> Dumps(elems[i])]) \o <<"]">>,
     members |-> <<>>]

At(s, i) == IF i \in 1..Len(s) THEN s[i] ELSE "EOF"

SkipWs(s, i) ==
    LET rest == {j \in i..Len(s) : s[j] \notin WhitespaceChars}
    IN  IF rest = {} THEN Len(s) + 1 ELSE Min(rest)

ParseNumber(s, i) ==
    LET stop == Min({j \in i..(Len(s) + 1) : At(s, j) \notin Digits})
        last == IF s[i] = "0" THEN i + 1 ELSE stop
    IN  [ok |-> TRUE,
         val |-> [kind |-> "number", text |-> SubSeq(s, i, last - 1), members |-> <<>>],
         next |-> last]

ParseString(s, i) ==
    LET closing == {j \in (i + 1)..Len(s) : s[j] = Quote}
    IN  IF closing = {} THEN ParseError
        ELSE [ok |-> TRUE,
              val |-> StringValue(SubSeq(s, i + 1, Min(closing) - 1)),
              next |-> Min(closing) + 1]

RECURSIVE ParseValue(_, _)
RECURSIVE ParseMembers(_, _, _)
RECURSIVE ParseElements(_, _, _)

\* s[i] is the first character of a key; members holds the pairs read so far
ParseMembers(s, i, members) ==
    IF At(s, i) # Quote THEN ParseError
    ELSE LET k == ParseString(s, i)
             colon == SkipWs(s, k.next)
             v == ParseValue(s, SkipWs(s, colon + 1))
             after == SkipWs(s, v.next)
             sofar == SetItem(members, k.val.text, v.val)
         IN  IF ~k.ok \/ At(s, colon) # ":" THEN ParseError
             ELSE IF ~v.ok THEN ParseError
             ELSE IF At(s, after) = "}"
                  THEN [ok |-> TRUE, val |-> ObjectValue(sofar), next |-> after + 1]
             ELSE IF At(s, after) = ","
                  THEN ParseMembers(s, SkipWs(s, after + 1), sofar)
             ELSE ParseError

\* s[i] is the first character of an element; elems holds those read so far
ParseElements(s, i, elems) ==
    LET v == ParseValue(s, i)
        after == SkipWs(s, v.next)
        sofar == Append(elems, v.val)
    IN  IF ~v.ok THEN ParseError
        ELSE IF At(s, after) = "]"
             THEN [ok |-> TRUE, val |-> ArrayValue(sofar), next |-> after + 1]
        ELSE IF At(s, after) = ","
             THEN ParseElements(s, SkipWs(s, after + 1), sofar)
        ELSE ParseError

ParseValue(s, i) ==
    LET c == At(s, i)
        inner == SkipWs(s, i + 1)
    IN  IF c = "{"
        THEN IF At(s, inner) = "}"
             THEN [ok |-> TRUE, val |-> ObjectValue(<<>>), next |-> inner + 1]
             ELSE ParseMembers(s, inner, <<>>)
        ELSE IF c = "["
        THEN IF At(s, inner) = "]"
             THEN [ok |-> TRUE, val |-> ArrayValue(<<>>), next |-> inner + 1]
             ELSE ParseElements(s, inner, <<>>)
        ELSE IF c = Quote THEN ParseString(s, i)
        ELSE IF c \in Digits THEN ParseNumber(s, i)
        ELSE ParseError

\* json.loads(s): [raised, value]; trailing non-blank data is an error
json_loads(s) ==
    LET r == ParseValue(s, SkipWs(s, 1))
    IN  IF r.ok /\ SkipWs(s, r.next) = Len(s) + 1
        THEN [raised |-> FALSE, value |-> r.val]
        ELSE [raised |-> TRUE, value |-> NoValue]

\* dict.get(key, default) on a parsed value; a value that is not a dict has
\* no attribute get
HasGet(v) == v.kind = "object"

HasKey(v, key) == \E i \in 1..Len(v.members) : v.members[i].key = key

Get(v, key, default) ==
    IF HasKey(v, key)
    THEN (CHOOSE m \in {v.members[i] : i \in 1..Len(v.members)} : m.key = key).value
    ELSE default

---------------------------------------------------------------------------
(* ask_groq_json, lines 58-66: what it does with a received content *)

\* re.search(r"\{.*\}", content, flags=re.S): leftmost "{", then greedily to
\* the last "}" behind it
BraceMatch(s) ==
    LET opens == {i \in 1..Len(s) : s[i] = "{"}
        closes == IF opens = {} THEN {}
                  ELSE {j \in (Min(opens) + 1)..Len(s) : s[j] = "}"}
    IN  IF opens = {} \/ closes = {} THEN [found |-> FALSE, group |-> <<>>]
        ELSE [found |-> TRUE, group |-> SubSeq(s, Min(opens), Max(closes))]

RawValue(s) == ObjectValue(<<[key |-> <<"r", "a", "w">>, value |-> StringValue(s)]>>)

ParseContent(s) ==
    LET direct == json_loads(s)
        m == BraceMatch(s)
    IN  IF ~direct.raised THEN direct
        ELSE IF m.found THEN json_loads(m.group)
        ELSE [raised |-> FALSE, value |-> RawValue(s)]

NoReply == [raised |-> FALSE, at |-> "none", value |-> NoValue]

\* client.chat.completions.create either raises (llm.failed) or delivers
\* llm.content, which lines 58-66 turn into the returned value
ask_groq_json(llm) ==
    IF llm.failed THEN [raised |-> TRUE, at |-> "create", value |-> NoValue]
    ELSE LET p == ParseContent(llm.content)
         IN  [raised |-> p.raised,
              at |-> IF p.raised THEN "loads" ELSE "return",
              value |-> p.value]

---------------------------------------------------------------------------
(* Text extraction, lines 28-43 and 80 *)

DotPdf == <<".", "p", "d", "f">>

LowerChar(ch) ==
    CASE ch = "A" -> "a" [] ch = "P" -> "p" [] ch = "D" -> "d" [] ch = "F" -> "f"
      [] OTHER -> ch

Lower(s) == [i \in 1..Len(s) |-> LowerChar(s[i])]

EndsWith(s, suffix) ==
    /\ Len(s) >= Len(suffix)
    /\ SubSeq(s, Len(s) - Len(suffix) + 1, Len(s)) = suffix

\* pdfplumber first; on any exception PyMuPDF, whose exception is not caught
extract_text_from_pdf(doc) ==
    IF ~doc.layout.raised THEN doc.layout ELSE doc.plain

\* bytes.decode("utf-8", errors="ignore") never raises
extract_text_from_txt(doc) == [raised |-> FALSE, text |-> doc.decoded]

ExtractText(doc) ==
    IF EndsWith(Lower(doc.name), DotPdf) THEN extract_text_from_pdf(doc)
    ELSE extract_text_from_txt(doc)

---------------------------------------------------------------------------
(* The Extract block, lines 77-110 *)

PromptLimit == 20000
RetainLimit == 50000

\* variant: the prompt embeds the slice meant for the session
UserPrompt_RetainSlice(q, text) ==
    [question |-> q, document_text |-> RStrip(Slice(text, RetainLimit))]

\* the f-string of lines 83-102, then .strip(): the parts that vary
UserPrompt(q, text) == [question |-> q, document_text |-> RStrip(Slice(text, PromptLimit))]

NoBody == [kind |-> "none", text |-> <<>>]

Element(elem, label, v) ==
    [elem |-> elem, label |-> label, value |-> [kind |-> v.kind, text |-> v.text]]

\* st.session_state[key] = v
Assign(env, key, v) ==
    [session_state |-> (key :> v) @@ env.session_state,
     writes |-> Append(env.writes, key)]

\* variant: raw_text and question are assigned before ask_groq_json is called
TryBlock_AssignsBeforeCall(ss, text, q, r) ==
    LET e1 == Assign([session_state |-> ss, writes |-> <<>>],
                     "raw_text", Slice(text, RetainLimit))
        e2 == Assign(e1, "question", q)
        e3 == Assign(e2, "extracted_json", r.value)
    IN  IF r.raised
        THEN [session_state |-> e2.session_state, writes |-> e2.writes,
              rendered |-> <<Element("error", "Extraction failed", NoBody)>>,
          reply |-> r]
        ELSE [session_state |-> e3.session_state, writes |-> e3.writes,
              rendered |-> <<>>, reply |-> r]

\* variant: the except branch clears the session
TryBlock_ClearsOnFailure(ss, text, q, r) ==
    IF r.raised
    THEN [session_state |-> [k \in {} |-> k], writes |-> <<>>,
          rendered |-> <<Element("error", "Extraction failed", NoBody)>>,
          reply |-> r]
    ELSE LET e1 == Assign([session_state |-> ss, writes |-> <<>>],
                          "raw_text", Slice(text, RetainLimit))
             e2 == Assign(e1, "question", q)
             e3 == Assign(e2, "extracted_json", r.value)
         IN  [session_state |-> e3.session_state, writes |-> e3.writes,
              rendered |-> <<>>, reply |-> r]

\* lines 104-110: r is what ask_groq_json did
TryBlock(ss, text, q, r) ==
    IF r.raised
    THEN [session_state |-> ss, writes |-> <<>>,
          rendered |-> <<Element("error", "Extraction failed", NoBody)>>,
          reply |-> r]
    ELSE LET e1 == Assign([session_state |-> ss, writes |-> <<>>],
                          "raw_text", Slice(text, RetainLimit))
             e2 == Assign(e1, "question", q)
             e3 == Assign(e2, "extracted_json", r.value)
         IN  [session_state |-> e3.session_state, writes |-> e3.writes,
              rendered |-> <<>>, reply |-> r]

\* lines 82-110: t is the outcome of line 80, b that of the try block
RunRecord(t, b, q, llm) ==
    IF t.raised
    THEN [session_state |-> b.session_state, writes |-> <<>>, rendered |-> <<>>,
          completions |-> <<>>, escaped |-> TRUE,
          content |-> <<>>, reply |-> NoReply]
    ELSE [session_state |-> b.session_state, writes |-> b.writes,
          rendered |-> b.rendered,
          completions |-> <<UserPrompt(q, t.text)>>, escaped |-> FALSE,
          content |-> IF llm.failed THEN <<>> ELSE llm.content,
          reply |-> b.reply]

\* variant: a completion call that raises is made a second time
AfterExtraction_Retries(t, q, ss, llm) ==
    IF t.raised
    THEN RunRecord(t, [session_state |-> ss], q, llm)
    ELSE [RunRecord(t, TryBlock(ss, t.text, q, ask_groq_json(llm)), q, llm)
            EXCEPT !.completions = IF llm.failed THEN @ \o @ ELSE @]

\* lines 82-110 once line 80 has produced t: nothing runs if it raised
AfterExtraction(t, q, ss, llm) ==
    IF t.raised
    THEN RunRecord(t, [session_state |-> ss], q, llm)
    ELSE RunRecord(t, TryBlock(ss, t.text, q, ask_groq_json(llm)), q, llm)

\* lines 79-110 for the uploaded document doc, the question q and the
\* completion outcome llm
ExtractRun(doc, q, ss, llm) == AfterExtraction(ExtractText(doc), q, ss, llm)

---------------------------------------------------------------------------
(* Stage 2 and the Send Alert Mail block, lines 113-147 *)

\* line 113
Stage2Shown(ss) == "extracted_json" \in DOMAIN ss

\* lines 114-119
Stage2Elements(ss) ==
    IF Stage2Shown(ss) THEN <<Element("json", "Structured Data Extracted (JSON)", ss.extracted_json)>>
    ELSE <<>>

FinalAnswerKey == <<"f", "i", "n", "a", "l", "_", "a", "n", "s", "w", "e", "r">>
EmailBodyKey == <<"e", "m", "a", "i", "l", "_", "b", "o", "d", "y">>
StatusKey == <<"s", "t", "a", "t", "u", "s">>
BodyKey == <<"b", "o", "d", "y">>

NoAnswerReturned == StringValue(<<"_", "N", "o", " ", "a", "n", "s", "w", "e", "r", " ", "r", "e", "t", "u", "r", "n", "e", "d", "_">>)
NoEmailBodyReturned == StringValue(<<"_", "N", "o", " ", "e", "m", "a", "i", "l", " ", "b", "o", "d", "y", " ", "r", "e", "t", "u", "r", "n", "e", "d", "_">>)
Unknown == StringValue(<<"U", "n", "k", "n", "o", "w", "n">>)

PayloadKeys == {"question", "raw_text", "extracted_json"}

\* variant: the question is read from the input widget, not from the session
Payload_FromWidgets(ss, recipient) ==
    [question |-> question, raw_text |-> ss.raw_text,
     extracted_json |-> ss.extracted_json, recipient_email |-> recipient]

\* lines 125-130
Payload(ss, recipient) ==
    [question |-> ss.question, raw_text |-> ss.raw_text,
     extracted_json |-> ss.extracted_json, recipient_email |-> recipient]

\* lines 133-136
ResponseData(http) ==
    LET j == json_loads(http.text)
    IN  IF ~j.raised THEN j.value
        ELSE ObjectValue(<<[key |-> StatusKey,
                            value |-> StringValue(<<"H", "T", "T", "P", " ">> \o http.status_code)],
                           [key |-> BodyKey, value |-> StringValue(http.text)]>>)

\* lines 138-147 for the mapping data of lines 133-136
RenderData(data) ==
    IF ~HasGet(data)
    THEN <<Element("subheader", "Final Analytical Answer (from n8n)", NoBody),
           Element("error", "Webhook failed", NoBody)>>
    ELSE <<Element("subheader", "Final Analytical Answer (from n8n)", NoBody),
           Element("write", "final_answer", Get(data, FinalAnswerKey, NoAnswerReturned)),
           Element("subheader", "Generated Email Body", NoBody),
           Element("write", "email_body", Get(data, EmailBodyKey, NoEmailBodyReturned)),
           Element("subheader", "Email Automation Status", NoBody),
           Element("success", "status", Get(data, StatusKey, Unknown))>>

\* lines 133-147, after requests.post has returned http
RenderResponse(http) == RenderData(ResponseData(http))

\* variant: the POST is made without looking at the url
SendRun_NoUrlCheck(ss, recipient, url, http) ==
    [session_state |-> ss, writes |-> <<>>,
     posts |-> <<Payload(ss, recipient)>>, escaped |-> FALSE,
     response |-> <<http>>,
     rendered |-> IF http.failed
                  THEN <<Element("error", "Webhook failed", NoBody)>>
                  ELSE RenderResponse(http)]

\* variant: the webhook's answer is kept as the extracted JSON
SendRun_StoresResponse(ss, recipient, url, http) ==
    IF url = ""
    THEN [session_state |-> ss, writes |-> <<>>, posts |-> <<>>, escaped |-> FALSE,
          response |-> <<>>,
          rendered |-> <<Element("warning", "N8N_WEBHOOK_URL is not set", NoBody)>>]
    ELSE [session_state |-> IF http.failed THEN ss
                            ELSE ("extracted_json" :> ResponseData(http)) @@ ss,
          writes |-> <<>>,
          posts |-> <<Payload(ss, recipient)>>, escaped |-> FALSE,
          response |-> <<http>>,
          rendered |-> IF http.failed
                       THEN <<Element("error", "Webhook failed", NoBody)>>
                       ELSE RenderResponse(http)]

\* lines 121-147 for the recipient entered, the configured url and the
\* outcome http of the POST
SendRun(ss, recipient, url, http) ==
    IF url = ""
    THEN [session_state |-> ss, writes |-> <<>>, posts |-> <<>>, escaped |-> FALSE,
          response |-> <<>>,
          rendered |-> <<Element("warning", "N8N_WEBHOOK_URL is not set", NoBody)>>]
    ELSE IF ~(PayloadKeys \subseteq DOMAIN ss)
    THEN [session_state |-> ss, writes |-> <<>>, posts |-> <<>>, escaped |-> TRUE,
          response |-> <<>>, rendered |-> <<>>]
    ELSE [session_state |-> ss, writes |-> <<>>,
          posts |-> <<Payload(ss, recipient)>>, escaped |-> FALSE,
          response |-> <<http>>,
          rendered |-> IF http.failed
                       THEN <<Element("error", "Webhook failed", NoBody)>>
                       ELSE RenderResponse(http)]

---------------------------------------------------------------------------
(* Inputs *)

Run(ch, k) == [c |-> ch, n |-> k]

ShortText == <<Run("a", 3), Run(" ", 1)>>
OverPrompt == <<Run("a", PromptLimit + 1)>>
BlankAtLimit == <<Run("a", PromptLimit - 2), Run(" ", 4), Run("b", RetainLimit - PromptLimit)>>
OverRetain == <<Run("a", RetainLimit), Run("b", 1)>>

Raised == [raised |-> TRUE, text |-> <<>>]
Ok(t) == [raised |-> FALSE, text |-> t]

PdfName == <<"a", ".", "p", "d", "f">>
UpperPdfName == <<"A", ".", "P", "D", "F">>
TxtName == <<"a", ".", "t", "x", "t">>

\* a document is its name and what each extraction method makes of its bytes
Documents ==
    { [name |-> TxtName, layout |-> Raised, plain |-> Raised, decoded |-> ShortText],
      [name |-> TxtName, layout |-> Raised, plain |-> Raised, decoded |-> OverRetain],
      [name |-> PdfName, layout |-> Ok(BlankAtLimit), plain |-> Ok(ShortText), decoded |-> <<>>],
      [name |-> PdfName, layout |-> Ok(<<>>), plain |-> Ok(<<>>), decoded |-> <<>>],
      [name |-> UpperPdfName, layout |-> Raised, plain |-> Ok(OverPrompt), decoded |-> ShortText],
      [name |-> PdfName, layout |-> Raised, plain |-> Raised, decoded |-> ShortText] }

DefaultQuestion == "List the skills mentioned."
Questions == {"", DefaultQuestion, "What is the risk?"}
Recipients == {"", "a@example.com", "b@example.com"}
WebhookUrls == {"", "https://n8n.example/webhook"}

LowRisk == <<"{", "\"", "r", "i", "s", "k", "_", "l", "e", "v", "e", "l", "\"", ":", "\"", "L", "o", "w", "\"", "}">>
HereItIs == <<"H", "e", "r", "e", " ", "i", "t", " ", "i", "s", ":", " ", "{", "\"", "a", "\"", ":", "1", "}", " ", "t", "h", "a", "n", "k", "s">>
NotJson == <<"n", "o", "t", " ", "j", "s", "o", "n", " ", "a", "t", " ", "a", "l", "l">>
TwoObjects == <<"{", "\"", "a", "\"", ":", "1", "}", " ", "o", "r", " ", "{", "\"", "a", "\"", ":", "0", "}">>

LLMContents == {LowRisk, NotJson, TwoObjects}

LLMOutcomes ==
    {[failed |-> TRUE, content |-> <<>>]}
    \cup {[failed |-> FALSE, content |-> c] : c \in LLMContents}

JsonAlphabet == {"{", "}", "[", "]", "1", "x", " ", Quote, ":"}

RECURSIVE StringsUpTo(_)
StringsUpTo(k) ==
    IF k = 0 THEN {<<>>}
    ELSE LET shorter == StringsUpTo(k - 1)
         IN  shorter \cup {Append(s, ch) : s \in shorter, ch \in JsonAlphabet}

AllContents == StringsUpTo(MaxContentLen) \cup LLMContents \cup {HereItIs}

Sent == <<"{", "\"", "s", "t", "a", "t", "u", "s", "\"", ":", "\"", "s", "e", "n", "t", "\"", "}">>
FullAnswer == <<"{", "\"", "f", "i", "n", "a", "l", "_", "a", "n", "s", "w", "e", "r", "\"", ":", "\"", "1", "\"", ",", "\"", "e", "m", "a", "i", "l", "_", "b", "o", "d", "y", "\"", ":", "\"", "x", "\"", ",", "\"", "s", "t", "a", "t", "u", "s", "\"", ":", "\"", "s", "e", "n", "t", "\"", "}">>
ItemList == <<"[", "{", "\"", "s", "t", "a", "t", "u", "s", "\"", ":", "\"", "s", "e", "n", "t", "\"", "}", "]">>
BadGateway == <<"x">>

HttpOutcomes ==
    { [failed |-> TRUE, status_code |-> <<>>, text |-> <<>>],
      [failed |-> FALSE, status_code |-> <<"2", "0", "0">>, text |-> Sent],
      [failed |-> FALSE, status_code |-> <<"2", "0", "0">>, text |-> FullAnswer],
      [failed |-> FALSE, status_code |-> <<"2", "0", "0">>, text |-> ItemList],
      [failed |-> FALSE, status_code |-> <<"5", "0", "2">>, text |-> BadGateway] }

---------------------------------------------------------------------------
(* The session *)

EmptySession == [k \in {} |-> k]

Init ==
    /\ N8N_WEBHOOK_URL \in WebhookUrls
    /\ uploaded = <<>>
    /\ question = DefaultQuestion
    /\ recip = ""
    /\ session_state = EmptySession
    /\ content = <<>>
    /\ reply = NoReply
    /\ rendered = <<>>
    /\ completions = <<>>
    /\ posts = <<>>
    /\ writes = <<>>
    /\ escaped = FALSE
    /\ stage2 = FALSE
    /\ pressed = "none"
    /\ response = <<>>
    /\ committed = <<>>

\* a rerun in which no button is pressed
IdleRun ==
    /\ rendered' = Stage2Elements(session_state)
    /\ stage2' = Stage2Shown(session_state)
    /\ completions' = <<>>
    /\ posts' = <<>>
    /\ writes' = <<>>
    /\ escaped' = FALSE
    /\ content' = <<>>
    /\ reply' = NoReply
    /\ pressed' = "none"
    /\ response' = <<>>
    /\ UNCHANGED <<N8N_WEBHOOK_URL, session_state, committed>>

\* line 74: the user picks or removes a file
Upload ==
    /\ \E f \in {<<>>} \cup {<<d>> : d \in Documents} : uploaded' = f
    /\ IdleRun
    /\ UNCHANGED <<question, recip>>

\* line 75: the user edits the question
EditQuestion ==
    /\ \E q \in Questions : question' = q
    /\ IdleRun
    /\ UNCHANGED <<uploaded, recip>>

\* line 119: the recipient input exists only while Stage 2 is on screen
EditRecipient ==
    /\ stage2
    /\ \E r \in Recipients : recip' = r
    /\ IdleRun
    /\ UNCHANGED <<uploaded, question>>

\* line 77: the button is disabled unless a file and a question are present
Extract ==
    /\ uploaded # <<>>
    /\ question # ""
    /\ \E llm \in LLMOutcomes :
       \E run \in {ExtractRun(uploaded[1], question, session_state, llm)} :
          /\ session_state' = run.session_state
          /\ writes' = run.writes
          /\ completions' = run.completions
          /\ escaped' = run.escaped
          /\ content' = run.content
          /\ reply' = run.reply
          /\ stage2' = (~run.escaped /\ Stage2Shown(run.session_state))
          /\ rendered' = run.rendered \o
                (IF run.escaped THEN <<>> ELSE Stage2Elements(run.session_state))
          /\ committed' =
                IF run.reply.at = "return"
                THEN <<[question |-> question,
                        raw_text |-> Slice(ExtractText(uploaded[1]).text, RetainLimit),
                        extracted_json |-> run.reply.value]>>
                ELSE committed
    /\ posts' = <<>>
    /\ response' = <<>>
    /\ pressed' = "extract"
    /\ UNCHANGED <<N8N_WEBHOOK_URL, uploaded, question, recip>>

\* line 120: the button exists only in Stage 2 and is disabled without a
\* recipient
SendAlert ==
    /\ stage2
    /\ recip # ""
    /\ \E http \in HttpOutcomes :
       \E run \in {SendRun(session_state, recip, N8N_WEBHOOK_URL, http)} :
          /\ session_state' = run.session_state
          /\ writes' = run.writes
          /\ posts' = run.posts
          /\ escaped' = run.escaped
          /\ response' = run.response
          /\ rendered' = Stage2Elements(session_state) \o run.rendered
    /\ stage2' = TRUE
    /\ pressed' = "send"
    /\ completions' = <<>>
    /\ content' = <<>>
    /\ reply' = NoReply
    /\ UNCHANGED <<N8N_WEBHOOK_URL, uploaded, question, recip, committed>>

Next == Upload \/ EditQuestion \/ EditRecipient \/ Extract \/ SendAlert

Spec == Init /\ [][Next]_vars

---------------------------------------------------------------------------
(* ask_groq_json on its own: every content up to MaxContentLen *)

AskGroqJson ==
    /\ reply.at = "none"
    /\ \E c \in AllContents :
          /\ content' = c
          /\ reply' = ask_groq_json([failed |-> FALSE, content |-> c])
    /\ UNCHANGED <<N8N_WEBHOOK_URL, uploaded, question, recip, session_state,
                   rendered, completions, posts, writes, escaped, stage2, pressed,
                   response, committed>>

NextJson == AskGroqJson

SpecJson == Init /\ [][NextJson]_vars

---------------------------------------------------------------------------
(* Properties *)

Populated == PayloadKeys \subseteq DOMAIN session_state
Empty == PayloadKeys \cap DOMAIN session_state = {}

Shows(elem, label) ==
    \E i \in 1..Len(rendered) : rendered[i].elem = elem /\ rendered[i].label = label

ShowsValue(elem, label, v) ==
    \E i \in 1..Len(rendered) :
        /\ rendered[i].elem = elem
        /\ rendered[i].label = label
        /\ rendered[i].value = [kind |-> v.kind, text |-> v.text]

ExtractedText == ExtractText(uploaded[1])

AllThree == <<"raw_text", "question", "extracted_json">>

\* C1: whenever an Extract run's text extraction fails, the run shows the
\* inline "Extraction failed" error, no exception leaves the run, and
\* session_state is what it was before the run.
C1_ExtractionFailureCaught ==
    [][(pressed' = "extract" /\ ExtractText(uploaded'[1]).raised)
         => /\ ~escaped'
            /\ \E i \in 1..Len(rendered') :
                  rendered'[i].elem = "error" /\ rendered'[i].label = "Extraction failed"
            /\ session_state' = session_state]_vars

\* What C2 says ask_groq_json returns for a content s.
ClaimedResult(s) ==
    IF ~json_loads(s).raised THEN json_loads(s).value
    ELSE IF BraceMatch(s).found /\ ~json_loads(BraceMatch(s).group).raised
         THEN json_loads(BraceMatch(s).group).value
    ELSE RawValue(s)

\* C2: for every content received, ask_groq_json does not raise and returns
\* the direct parse, else the parse of the first-"{"-to-last-"}" span, else
\* {raw: content}.
C2_ContentNeverRaises ==
    reply.at \in {"loads", "return"}
        => ~reply.raised /\ reply.value = ClaimedResult(content)

\* C3: session_state holds none or all of question, raw_text, extracted_json;
\* when it holds them they are the triple of one Extract run whose
\* ask_groq_json call returned; a run assigns either nothing or each of the
\* three keys exactly once, and it assigns them exactly when that call returned.
C3_AtomicTriple ==
    /\ Empty \/ Populated
    /\ Empty => committed = <<>>
    /\ Populated =>
          /\ committed # <<>>
          /\ \A k \in PayloadKeys : session_state[k] = committed[1][k]
    /\ writes \in {<<>>, AllThree}
    /\ (writes = AllThree) <=> (pressed = "extract" /\ reply.at = "return")

C3_Witness ==
    /\ pressed = "extract"
    /\ writes = AllThree
    /\ Populated
    /\ session_state.question = "What is the risk?"

C5_Lifecycle ==
    /\ DOMAIN session_state = {}
    /\ []((stage2 \/ pressed = "send" \/ posts # <<>>) => (committed # <<>> /\ Populated))
    /\ [][/\ Populated => Populated'
          /\ (~Populated /\ Populated') => (pressed' = "extract" /\ reply'.at = "return")]_vars

C5_Witness ==
    /\ pressed = "send"
    /\ posts # <<>>
    /\ Populated

\* C6: the document text in the prompt has at most 20,000 characters and is a
\* prefix of the extracted text; the text stored has at most 50,000
\* characters; the prompt's text is a prefix of the text stored.
C6_Truncation ==
    /\ \A i \in 1..Len(completions) :
          /\ TextLen(completions[i].document_text) <= 20000
          /\ IsPrefix(completions[i].document_text, ExtractedText.text)
    /\ Populated => TextLen(session_state.raw_text) <= 50000
    /\ writes # <<>> =>
          /\ IsPrefix(session_state.raw_text, ExtractedText.text)
          /\ \A i \in 1..Len(completions) :
                /\ IsPrefix(completions[i].document_text, session_state.raw_text)
                /\ TextLen(completions[i].document_text) <= TextLen(session_state.raw_text)

C6_Witness ==
    /\ pressed = "extract"
    /\ writes # <<>>
    /\ TextLen(ExtractedText.text) > 50000
    /\ TextLen(session_state.raw_text) = 50000
    /\ TextLen(completions[1].document_text) = 20000

\* The mapping C7 says is rendered for a response.
ClaimedData(http) ==
    IF json_loads(http.text).raised
    THEN ObjectValue(<<[key |-> StatusKey,
                        value |-> StringValue(<<"H", "T", "T", "P", " ">> \o http.status_code)],
                       [key |-> BodyKey, value |-> StringValue(http.text)]>>)
    ELSE json_loads(http.text).value

\* C7: for every response the webhook returns, the run shows no "Webhook
\* failed" error and renders final_answer, email_body and status, with the
\* placeholders for missing keys.
C7_ResponseNeverError ==
    (pressed = "send" /\ response # <<>> /\ ~response[1].failed)
        => /\ ~Shows("error", "Webhook failed")
           /\ ~escaped
           /\ ShowsValue("write", "final_answer",
                         Get(ClaimedData(response[1]), FinalAnswerKey, NoAnswerReturned))
           /\ ShowsValue("write", "email_body",
                         Get(ClaimedData(response[1]), EmailBodyKey, NoEmailBodyReturned))
           /\ ShowsValue("success", "status",
                         Get(ClaimedData(response[1]), StatusKey, Unknown))

\* C8: with an empty webhook URL a Send Alert Mail run makes no POST and adds
\* only the warning to the screen; with a URL it makes exactly one POST,
\* whether the POST succeeds or fails.
C8_PostCount ==
    pressed = "send" =>
        IF N8N_WEBHOOK_URL = ""
        THEN /\ posts = <<>>
             /\ response = <<>>
             /\ completions = <<>>
             /\ writes = <<>>
             /\ ~escaped
             /\ rendered = Stage2Elements(session_state) \o
                           <<Element("warning", "N8N_WEBHOOK_URL is not set", NoBody)>>
        ELSE /\ Len(posts) = 1
             /\ Len(response) = 1

C8_Witness ==
    /\ pressed = "send"
    /\ N8N_WEBHOOK_URL = ""
    /\ Shows("warning", "N8N_WEBHOOK_URL is not set")

\* C9: a Send Alert Mail run, whatever its outcome, leaves session_state
\* unchanged and still shows the extracted JSON.
C9_SendFrame ==
    [][pressed' = "send"
         => /\ session_state' = session_state
            /\ writes' = <<>>
            /\ committed' = committed
            /\ rendered'[1] = Element("json", "Structured Data Extracted (JSON)",
                                      session_state.extracted_json)]_vars

C9_Witness ==
    /\ pressed = "send"
    /\ response # <<>>
    /\ response[1].failed
    /\ Shows("error", "Webhook failed")
    /\ Populated

\* C10: the payload of a POST carries the question, raw_text and
\* extracted_json of the last Extract run whose ask_groq_json call returned,
\* and the recipient entered when the button was pressed.
C10_Payload ==
    \A i \in 1..Len(posts) :
        /\ committed # <<>>
        /\ posts[i].question = committed[1].question
        /\ posts[i].raw_text = committed[1].raw_text
        /\ posts[i].extracted_json = committed[1].extracted_json
        /\ posts[i].recipient_email = recip

C10_Witness ==
    /\ pressed = "send"
    /\ Len(posts) = 1
    /\ question # posts[1].question
    /\ uploaded = <<>>
    /\ posts[1].recipient_email = "b@example.com"

====
